---- MODULE Spec2Model ----
(***************************************************************************)
(* Model of the WAVE PCM codec of src/lib.rs: Format::encode,              *)
(* Format::decode and Format::check, with the helpers read2, read4, readn. *)
(*                                                                         *)
(* Integers of the program (u16, u32, u64/usize) are wider than the        *)
(* integers of the model checker, so a machine integer is modelled as a    *)
(* "number": a function from limb index 0..w-1 to a base-256 digit, whose  *)
(* value is the sum of n[i] * 256^i.  A byte array ([u8; 2], [u8; 4]) or a *)
(* Vec<u8> is a sequence of bytes indexed from 1.                          *)
(***************************************************************************)
EXTENDS Integers, Sequences, FiniteSets, TLC

\* ------------------------------------------------------------------------
\* Bounds of the model
\* ------------------------------------------------------------------------

\* longest payload whose bytes are written out one by one
MaxPayload == 2

\* most bytes a file carries after the payload its header declares
MaxExtra == 1

\* the bytes payloads and trailing bytes are made of
PayloadBytes == {7, 200}

\* ------------------------------------------------------------------------
\* Numbers: exact arithmetic on base-256 limbs
\* ------------------------------------------------------------------------

Min(a, b) == IF a <= b THEN a ELSE b

Max(a, b) == IF a >= b THEN a ELSE b

Pow256(i) == IF i = 0 THEN 1 ELSE IF i = 1 THEN 256 ELSE IF i = 2 THEN 65536 ELSE 16777216

\* number of limbs of a number
Width(n) == Cardinality(DOMAIN n)

\* limb i of n, zero beyond its width
Limb(n, i) == IF i \in DOMAIN n THEN n[i] ELSE 0

\* the number of width w whose value is the small natural v (v < 2^31)
NumOf(v, w) == [i \in 0..(w - 1) |-> IF i <= 3 THEN (v \div Pow256(i)) % 256 ELSE 0]

\* n has no set bit at or above bit 8*w
Fits(n, w) == \A i \in DOMAIN n : i >= w => n[i] = 0

\* n modulo 2^(8*w), as a number of width w
Trunc(n, w) == [i \in 0..(w - 1) |-> Limb(n, i)]

IsZero(n) == \A i \in DOMAIN n : n[i] = 0

\* equality of values, whatever the widths
NumEq(a, b) == \A i \in (DOMAIN a) \cup (DOMAIN b) : Limb(a, i) = Limb(b, i)

\* the value of a number that fits 3 limbs, as a natural of the model
ToNat(n) == Limb(n, 0) + 256 * Limb(n, 1) + 65536 * Limb(n, 2)

RECURSIVE Carry(_, _, _)
\* carry into limb i of the exact sum a + b
Carry(a, b, i) ==
    IF i = 0 THEN 0
    ELSE (Limb(a, i - 1) + Limb(b, i - 1) + Carry(a, b, i - 1)) \div 256

\* exact sum, one limb wider than the wider operand
AddN(a, b) ==
    [i \in 0..Max(Width(a), Width(b)) |-> (Limb(a, i) + Limb(b, i) + Carry(a, b, i)) % 256]

\* sum of the limb products of a * b that land in column k
ColSum(a, b, k) ==
    LET RECURSIVE Sum(_)
        Sum(i) == IF i > k THEN 0 ELSE Limb(a, i) * Limb(b, k - i) + Sum(i + 1)
    IN Sum(0)

RECURSIVE MulCarry(_, _, _)
\* carry into column k of the exact product a * b
MulCarry(a, b, k) ==
    IF k = 0 THEN 0
    ELSE (ColSum(a, b, k - 1) + MulCarry(a, b, k - 1)) \div 256

\* exact product, as wide as both operands together
MulN(a, b) ==
    [k \in 0..(Width(a) + Width(b) - 1) |-> (ColSum(a, b, k) + MulCarry(a, b, k)) % 256]

\* exact quotient n / 8, rounded down
Div8(n) == [i \in DOMAIN n |-> (n[i] \div 8) + (Limb(n, i + 1) % 8) * 32]

\* ------------------------------------------------------------------------
\* Machine arithmetic of the build
\* ------------------------------------------------------------------------

\* usize is 8 bytes, u32 4 bytes, u16 2 bytes
W64 == 8

W32 == 4

W16 == 2

\* a * b in a w-byte unsigned type: the wrapped value, and whether it overflowed
WrappingMul(a, b, w) == [val |-> Trunc(MulN(a, b), w), overflow |-> ~Fits(MulN(a, b), w)]

\* a + b in a w-byte unsigned type
WrappingAdd(a, b, w) == [val |-> Trunc(AddN(a, b), w), overflow |-> ~Fits(AddN(a, b), w)]

\* u32::from(x) of a u16
U32From(x) == Trunc(x, W32)

\* n.to_le_bytes(): least significant byte first
ToLeBytes(n) == [j \in 1..Width(n) |-> n[j - 1]]

\* u32::from_le_bytes(b), u16::from_le_bytes(b)
FromLeBytes(b) == [i \in 0..(Len(b) - 1) |-> b[i + 1]]

\* ------------------------------------------------------------------------
\* Constants of the format
\* ------------------------------------------------------------------------

\* "RIFF".as_bytes()
RIFF == <<82, 73, 70, 70>>

\* "WAVE".as_bytes()
WAVE == <<87, 65, 86, 69>>

\* "fmt ".as_bytes()
FMT == <<102, 109, 116, 32>>

\* "data".as_bytes()
DATA == <<100, 97, 116, 97>>

\* bytes of the header that follow total_size
HeaderRest == 36

FmtChunkSize == 16

FmtCode == 1

\* ------------------------------------------------------------------------
\* Payloads
\* ------------------------------------------------------------------------

(* A Vec<u8> is modelled as its first bytes (head) followed by a run of   *)
(* `pad` zero bytes, so that a vector of 2^32 bytes can be an input.      *)
VecLen(v) == Trunc(AddN(NumOf(Len(v.head), W64), v.pad), W64)

VecIsEmpty(v) == IsZero(VecLen(v))

Vec(bytes) == [head |-> bytes, pad |-> NumOf(0, W64)]

\* ------------------------------------------------------------------------
\* Format::encode
\* ------------------------------------------------------------------------

FieldNames ==
    <<"riff_tag", "total_size", "wave_tag", "fmt_chunk_tag", "fmt_chunk_size",
      "fmt_code", "num_channels", "sampling_rate", "byte_rate",
      "block_alignment", "bits_per_sample", "data_tag", "data_size">>

\* the value in a Result that carries no Format
NoFormat ==
    [riff_tag |-> <<>>, total_size |-> <<>>, wave_tag |-> <<>>,
     fmt_chunk_tag |-> <<>>, fmt_chunk_size |-> <<>>, fmt_code |-> <<>>,
     num_channels |-> <<>>, sampling_rate |-> <<>>, byte_rate |-> <<>>,
     block_alignment |-> <<>>, bits_per_sample |-> <<>>, data_tag |-> <<>>,
     data_size |-> <<>>, data |-> Vec(<<>>)]

(* encode(data, num_channels, sampling_rate, bits_per_sample) under a     *)
(* build with (overflow_checks) or without overflow checks.  status is    *)
(* "Ok", "Err" (the ? of try_into) or "Panic" (arithmetic overflow in a   *)
(* build with overflow checks).                                           *)
encode(data, num_channels, sampling_rate, bits_per_sample, overflow_checks) ==
    LET len        == VecLen(data)
        size       == Trunc(len, W32)
        total      == WrappingAdd(size, NumOf(HeaderRest, W32), W32)
        rc         == WrappingMul(sampling_rate, U32From(num_channels), W32)
        rcb        == WrappingMul(rc.val, U32From(bits_per_sample), W32)
        cb         == WrappingMul(num_channels, bits_per_sample, W16)
        overflowed == total.overflow \/ rc.overflow \/ rcb.overflow \/ cb.overflow
    IN  IF ~Fits(len, W32)
        THEN [status |-> "Err", fmt |-> NoFormat]
        ELSE IF overflow_checks /\ overflowed
        THEN [status |-> "Panic", fmt |-> NoFormat]
        ELSE [status |-> "Ok",
              fmt |-> [riff_tag        |-> RIFF,
                       total_size      |-> ToLeBytes(total.val),
                       wave_tag        |-> WAVE,
                       fmt_chunk_tag   |-> FMT,
                       fmt_chunk_size  |-> ToLeBytes(NumOf(FmtChunkSize, W32)),
                       fmt_code        |-> ToLeBytes(NumOf(FmtCode, W16)),
                       num_channels    |-> ToLeBytes(num_channels),
                       sampling_rate   |-> ToLeBytes(sampling_rate),
                       byte_rate       |-> ToLeBytes(Div8(rcb.val)),
                       block_alignment |-> ToLeBytes(Div8(cb.val)),
                       bits_per_sample |-> ToLeBytes(bits_per_sample),
                       data_tag        |-> DATA,
                       data_size       |-> ToLeBytes(size),
                       data            |-> data]]

\* ------------------------------------------------------------------------
\* read2, read4, readn
\* ------------------------------------------------------------------------

(* The byte source of decode is a BufReader over a regular file that is   *)
(* shorter than the reader's buffer: a successful read(buf) delivers      *)
(* min(len(buf), bytes left) bytes and advances by that many; a failing   *)
(* read returns Err, delivers nothing and does not advance.  A reader is  *)
(* the bytes of the file and the count of bytes consumed.                 *)
ReadInto(bytes, pos, k, fails) ==
    LET n == IF fails THEN 0 ELSE Min(k, Len(bytes) - pos)
    IN  [buf |-> [j \in 1..k |-> IF j <= n THEN bytes[pos + j] ELSE 0],
         pos |-> pos + n]

\* read2: the result of reader.read is dropped, the buffer starts as zeros
read2(bytes, pos, fails) == ReadInto(bytes, pos, 2, fails)

\* read4
read4(bytes, pos, fails) == ReadInto(bytes, pos, 4, fails)

\* readn whose take() limit is ignored
readn_Unbounded(bytes, pos, nbytes, fails, partial) ==
    LET avail == Len(bytes) - pos
        got   == IF fails THEN Min(partial, avail) ELSE avail
    IN  [status |-> "Ok", vec |-> Vec(SubSeq(bytes, pos + 1, pos + got))]

(* readn: reader.take(nbytes).read_to_end(&mut buf), the result of which  *)
(* is dropped.  When read_to_end fails, buf keeps the `partial` bytes     *)
(* appended before the failure.                                           *)
readn(bytes, pos, nbytes, fails, partial) ==
    LET avail == Len(bytes) - pos
        want  == IF Fits(nbytes, 3) THEN Min(ToNat(nbytes), avail) ELSE avail
        got   == IF fails THEN Min(partial, want) ELSE want
    IN  [status |-> "Ok", vec |-> Vec(SubSeq(bytes, pos + 1, pos + got))]

\* ------------------------------------------------------------------------
\* Format::decode
\* ------------------------------------------------------------------------

\* number of reads decode makes: 13 header fields and the payload
NumReads == Len(FieldNames) + 1

\* decode that fills block_alignment and bits_per_sample from each other's bytes
decode_Swapped(file, failing, partial) ==
    IF ~file.exists
    THEN [status |-> "Err", fmt |-> NoFormat]
    ELSE
    LET b   == file.bytes
        r1  == read4(b, 0, 1 \in failing)
        r2  == read4(b, r1.pos, 2 \in failing)
        r3  == read4(b, r2.pos, 3 \in failing)
        r4  == read4(b, r3.pos, 4 \in failing)
        r5  == read4(b, r4.pos, 5 \in failing)
        r6  == read2(b, r5.pos, 6 \in failing)
        r7  == read2(b, r6.pos, 7 \in failing)
        r8  == read4(b, r7.pos, 8 \in failing)
        r9  == read4(b, r8.pos, 9 \in failing)
        r10 == read2(b, r9.pos, 10 \in failing)
        r11 == read2(b, r10.pos, 11 \in failing)
        r12 == read4(b, r11.pos, 12 \in failing)
        r13 == read4(b, r12.pos, 13 \in failing)
        d   == readn(b, r13.pos, FromLeBytes(r13.buf), 14 \in failing, partial)
    IN  [status |-> "Ok",
         fmt |-> [riff_tag        |-> r1.buf,
                  total_size      |-> r2.buf,
                  wave_tag        |-> r3.buf,
                  fmt_chunk_tag   |-> r4.buf,
                  fmt_chunk_size  |-> r5.buf,
                  fmt_code        |-> r6.buf,
                  num_channels    |-> r7.buf,
                  sampling_rate   |-> r8.buf,
                  byte_rate       |-> r9.buf,
                  block_alignment |-> r11.buf,
                  bits_per_sample |-> r10.buf,
                  data_tag        |-> r12.buf,
                  data_size       |-> r13.buf,
                  data            |-> d.vec]]

(* decode(path).  file.exists is whether File::open succeeds; `failing`   *)
(* is the set of reads (1..14, in program order) on which the byte source *)
(* returns an error.                                                      *)
decode(file, failing, partial) ==
    IF ~file.exists
    THEN [status |-> "Err", fmt |-> NoFormat]
    ELSE
    LET b   == file.bytes
        r1  == read4(b, 0, 1 \in failing)
        r2  == read4(b, r1.pos, 2 \in failing)
        r3  == read4(b, r2.pos, 3 \in failing)
        r4  == read4(b, r3.pos, 4 \in failing)
        r5  == read4(b, r4.pos, 5 \in failing)
        r6  == read2(b, r5.pos, 6 \in failing)
        r7  == read2(b, r6.pos, 7 \in failing)
        r8  == read4(b, r7.pos, 8 \in failing)
        r9  == read4(b, r8.pos, 9 \in failing)
        r10 == read2(b, r9.pos, 10 \in failing)
        r11 == read2(b, r10.pos, 11 \in failing)
        r12 == read4(b, r11.pos, 12 \in failing)
        r13 == read4(b, r12.pos, 13 \in failing)
        d   == readn(b, r13.pos, FromLeBytes(r13.buf), 14 \in failing, partial)
    IN  IF d.status # "Ok"
        THEN [status |-> "Err", fmt |-> NoFormat]
        ELSE [status |-> "Ok",
              fmt |-> [riff_tag        |-> r1.buf,
                       total_size      |-> r2.buf,
                       wave_tag        |-> r3.buf,
                       fmt_chunk_tag   |-> r4.buf,
                       fmt_chunk_size  |-> r5.buf,
                       fmt_code        |-> r6.buf,
                       num_channels    |-> r7.buf,
                       sampling_rate   |-> r8.buf,
                       byte_rate       |-> r9.buf,
                       block_alignment |-> r10.buf,
                       bits_per_sample |-> r11.buf,
                       data_tag        |-> r12.buf,
                       data_size       |-> r13.buf,
                       data            |-> d.vec]]

\* ------------------------------------------------------------------------
\* Format::check
\* ------------------------------------------------------------------------

Cont(x) == x >= 128 /\ x <= 191

RECURSIVE Utf8From(_, _)
\* the bytes of s from index i on are well-formed UTF-8
Utf8From(s, i) ==
    LET n     == Len(s)
        at(j) == IF j <= n THEN s[j] ELSE 0 - 1
        b0    == at(i)
        b1    == at(i + 1)
        b2    == at(i + 2)
        b3    == at(i + 3)
    IN  IF i > n THEN TRUE
        ELSE IF b0 < 128 THEN Utf8From(s, i + 1)
        ELSE IF b0 >= 194 /\ b0 <= 223 THEN Cont(b1) /\ Utf8From(s, i + 2)
        ELSE IF b0 = 224 THEN b1 >= 160 /\ b1 <= 191 /\ Cont(b2) /\ Utf8From(s, i + 3)
        ELSE IF b0 = 237 THEN b1 >= 128 /\ b1 <= 159 /\ Cont(b2) /\ Utf8From(s, i + 3)
        ELSE IF b0 >= 225 /\ b0 <= 239 THEN Cont(b1) /\ Cont(b2) /\ Utf8From(s, i + 3)
        ELSE IF b0 = 240 THEN b1 >= 144 /\ b1 <= 191 /\ Cont(b2) /\ Cont(b3) /\ Utf8From(s, i + 4)
        ELSE IF b0 >= 241 /\ b0 <= 243 THEN Cont(b1) /\ Cont(b2) /\ Cont(b3) /\ Utf8From(s, i + 4)
        ELSE IF b0 = 244 THEN b1 >= 128 /\ b1 <= 143 /\ Cont(b2) /\ Cont(b3) /\ Utf8From(s, i + 4)
        ELSE FALSE

\* String::from_utf8(bytes) succeeds
FromUtf8Ok(bytes) == Utf8From(bytes, 1)

(* The outcome of check: Ok(()), or the one error it returns.  An error   *)
(* made by anyhow! carries the byte range its message names ("as bytes lo *)
(* - hi") and the value it found; the FromUtf8Error propagated by ? has a *)
(* message that names no byte range.                                      *)
Passed == [ok |-> TRUE, kind |-> "none", lo |-> 0, hi |-> 0, got |-> <<>>]

Requires(lo, hi, got) == [ok |-> FALSE, kind |-> "requires", lo |-> lo, hi |-> hi, got |-> got]

Utf8Error(bytes) == [ok |-> FALSE, kind |-> "utf8", lo |-> 0, hi |-> 0, got |-> bytes]

\* a tag check that never compares the decoded string
CheckTag_NoCompare(tag, expected, lo, hi) ==
    IF ~FromUtf8Ok(tag) THEN Utf8Error(tag) ELSE Passed

\* String::from_utf8(tag.to_vec())? followed by the comparison with the literal
CheckTag(tag, expected, lo, hi) ==
    IF ~FromUtf8Ok(tag) THEN Utf8Error(tag)
    ELSE IF tag # expected THEN Requires(lo, hi, tag)
    ELSE Passed

\* u32::from_le_bytes / u16::from_le_bytes of the field compared with a literal
CheckValue(field, expected, lo, hi) ==
    IF ~NumEq(FromLeBytes(field), NumOf(expected, Len(field)))
    THEN Requires(lo, hi, field)
    ELSE Passed

\* the length of a fixed-size array compared with its size
CheckLen(field, n, lo, hi) ==
    IF Len(field) # n THEN Requires(lo, hi, <<Len(field)>>) ELSE Passed

\* a payload check that rejects the non-empty payload
CheckData_Inverted(data) ==
    IF ~VecIsEmpty(data) THEN Requires(45, 0, <<0>>) ELSE Passed

\* self.data.is_empty(); the message names bytes 45 - EOF
CheckData(data) ==
    IF VecIsEmpty(data) THEN Requires(45, 0, <<0>>) ELSE Passed

RECURSIVE FirstError(_)
\* the first failed check of a list, as the early returns of check give it
FirstError(results) ==
    IF results = <<>> THEN Passed
    ELSE IF ~Head(results).ok THEN Head(results)
    ELSE FirstError(Tail(results))

check(self) ==
    FirstError(<<
        CheckTag(self.riff_tag, RIFF, 1, 4),
        CheckLen(self.total_size, 4, 5, 8),
        CheckTag(self.wave_tag, WAVE, 9, 12),
        CheckTag(self.fmt_chunk_tag, FMT, 13, 16),
        CheckValue(self.fmt_chunk_size, 16, 17, 20),
        CheckValue(self.fmt_code, 1, 21, 22),
        CheckLen(self.num_channels, 2, 23, 24),
        CheckLen(self.sampling_rate, 4, 25, 28),
        CheckLen(self.byte_rate, 4, 29, 32),
        CheckLen(self.block_alignment, 2, 33, 34),
        CheckLen(self.bits_per_sample, 2, 35, 36),
        CheckTag(self.data_tag, DATA, 37, 40),
        CheckLen(self.data_size, 4, 41, 44),
        CheckData(self.data)
    >>)

\* ------------------------------------------------------------------------
\* The file image of a Format
\* ------------------------------------------------------------------------

(* The 13 header fields in the order of the struct, then the payload: the *)
(* layout decode reads back.  Defined for a payload written out in full.  *)
Serialize(w) ==
    w.riff_tag \o w.total_size \o w.wave_tag \o w.fmt_chunk_tag \o
    w.fmt_chunk_size \o w.fmt_code \o w.num_channels \o w.sampling_rate \o
    w.byte_rate \o w.block_alignment \o w.bits_per_sample \o w.data_tag \o
    w.data_size \o w.data.head

\* ------------------------------------------------------------------------
\* Inputs
\* ------------------------------------------------------------------------

\* 2^32 - 1
U32Max == [i \in 0..(W32 - 1) |-> 255]

\* 2^32 - 37: one byte more and total_size no longer fits
NearFull == [i \in 0..(W64 - 1) |-> IF i = 0 THEN 219 ELSE IF i < W32 THEN 255 ELSE 0]

SeqsUpTo(S, n) == UNION {[1..k -> S] : k \in 0..n}

\* payloads written out byte by byte, and long payloads of zero bytes
Payloads ==
    {Vec(h) : h \in SeqsUpTo(PayloadBytes, MaxPayload)}
    \cup {[head |-> h, pad |-> p] : h \in {<<>>, <<7>>},
                                   p \in {NearFull, Trunc(U32Max, W64)}}
    \cup {[head |-> <<>>, pad |-> NumOf(1000, W64)]}

Channels == {NumOf(0, W16), NumOf(2, W16), NumOf(4096, W16), NumOf(65535, W16)}

Rates == {NumOf(0, W32), NumOf(44100, W32), NumOf(536870912, W32), U32Max}

Depths == {NumOf(0, W16), NumOf(16, W16), NumOf(65535, W16)}

\* assignments a caller makes to the public fields of a Format
Tamperings ==
    {[field |-> "riff_tag", value |-> <<82, 73, 70, 88>>],
     [field |-> "riff_tag", value |-> <<255, 73, 70, 70>>],
     [field |-> "wave_tag", value |-> <<119, 97, 118, 101>>],
     [field |-> "num_channels", value |-> <<0, 0>>],
     [field |-> "fmt_code", value |-> <<1, 1>>],
     [field |-> "data_size", value |-> <<255, 255, 255, 255>>]}

\* which reads of a decode fail: none, any single one, or all of them
FailingReads == {{}} \cup {{i} : i \in 1..NumReads} \cup {1..NumReads}

\* lengths a file is cut to
Cuts == {0, 3, 6, 22, 41, 44, 45}

\* ------------------------------------------------------------------------
\* State
\* ------------------------------------------------------------------------

VARIABLES
    pc,        \* "start", "encoded", "decoded" or "checked"
    args,      \* the arguments of the call of encode
    enc,       \* the result of encode
    wav,       \* the Format the caller holds, if origin # "none"
    origin,    \* the call wav came from: "none", "encode" or "decode"
    tampered,  \* the field the caller assigned after encode, or "none"
    file,      \* the file decode was called on
    failing,   \* the reads of that decode that failed
    dec,       \* the result of decode
    chk        \* the result of check

vars == <<pc, args, enc, wav, origin, tampered, file, failing, dec, chk>>

NoResult == [status |-> "none", fmt |-> NoFormat]

NoArgs ==
    [data |-> Vec(<<>>), num_channels |-> NumOf(0, W16),
     sampling_rate |-> NumOf(0, W32), bits_per_sample |-> NumOf(0, W16)]

NoFile == [exists |-> FALSE, bytes |-> <<>>]

NotChecked == [ok |-> FALSE, kind |-> "unchecked", lo |-> 0, hi |-> 0, got |-> <<>>]

Init ==
    /\ pc = "start"
    /\ args = NoArgs
    /\ enc = NoResult
    /\ wav = NoFormat
    /\ origin = "none"
    /\ tampered = "none"
    /\ file = NoFile
    /\ failing = {}
    /\ dec = NoResult
    /\ chk = NotChecked

\* a call of Format::encode
DoEncode ==
    /\ pc = "start"
    /\ \E data \in Payloads, c \in Channels, r \in Rates, b \in Depths,
          overflow_checks \in BOOLEAN :
          /\ args' = [data |-> data, num_channels |-> c,
                      sampling_rate |-> r, bits_per_sample |-> b]
          /\ enc' = encode(data, c, r, b, overflow_checks)
    /\ wav' = enc'.fmt
    /\ origin' = IF enc'.status = "Ok" THEN "encode" ELSE "none"
    /\ pc' = "encoded"
    /\ UNCHANGED <<tampered, file, failing, dec, chk>>

\* the caller assigns one public field of the Format encode returned
Tamper ==
    /\ pc = "encoded"
    /\ origin = "encode"
    /\ tampered = "none"
    /\ \E t \in Tamperings :
          /\ wav' = [wav EXCEPT ![t.field] = t.value]
          /\ tampered' = t.field
    /\ UNCHANGED <<pc, args, enc, origin, file, failing, dec, chk>>

(* The caller writes the image of its Format to a file, whole, cut short  *)
(* or followed by further bytes, and calls Format::decode on the path, or *)
(* calls it on a path that does not exist.                                *)
DoDecode ==
    /\ pc = "encoded"
    /\ origin = "encode"
    /\ IsZero(wav.data.pad)
    /\ \E exists \in BOOLEAN, cut \in Cuts \cup {Len(Serialize(wav))},
          extra \in SeqsUpTo(PayloadBytes, MaxExtra),
          f \in FailingReads, partial \in 0..MaxPayload :
          /\ cut < Len(Serialize(wav)) => extra = <<>>
          /\ cut <= Len(Serialize(wav))
          /\ ~exists => cut = 0 /\ extra = <<>>
          /\ (~exists \/ cut < Len(Serialize(wav)) \/ extra # <<>>) => f = {}
          /\ (NumReads \notin f \/ Cardinality(f) > 1) => partial = 0
          /\ file' = [exists |-> exists,
                      bytes |-> SubSeq(Serialize(wav), 1, cut) \o extra]
          /\ failing' = f
          /\ dec' = decode(file', f, partial)
    /\ wav' = dec'.fmt
    /\ origin' = IF dec'.status = "Ok" THEN "decode" ELSE "none"
    /\ pc' = "decoded"
    /\ UNCHANGED <<args, enc, tampered, chk>>

\* a call of Format::check on the Format the caller holds
DoCheck ==
    /\ pc \in {"encoded", "decoded"}
    /\ origin # "none"
    /\ chk' = check(wav)
    /\ pc' = "checked"
    /\ UNCHANGED <<args, enc, wav, origin, tampered, file, failing, dec>>

Next == DoEncode \/ Tamper \/ DoDecode \/ DoCheck

Spec == Init /\ [][Next]_vars

\* ------------------------------------------------------------------------
\* Properties
\* ------------------------------------------------------------------------

\* the derived fields as exact integers, from the arguments of encode
ExactByteRate == Div8(MulN(MulN(args.sampling_rate, args.num_channels), args.bits_per_sample))

ExactBlockAlignment == Div8(MulN(args.num_channels, args.bits_per_sample))

ExactTotalSize == AddN(VecLen(args.data), NumOf(36, W64))

PositiveArgs ==
    /\ ~IsZero(args.num_channels)
    /\ ~IsZero(args.sampling_rate)
    /\ ~IsZero(args.bits_per_sample)

DerivedFit ==
    /\ Fits(ExactByteRate, 4)
    /\ Fits(ExactBlockAlignment, 2)
    /\ Fits(ExactTotalSize, 4)

\* decode ran to the end on an existing file none of whose reads failed
DecodedCleanly == dec.status # "none" /\ file.exists /\ failing = {}

\* every field but riff_tag satisfies its invariant of the layout table
ValidButRiffTag(w) ==
    /\ w.wave_tag = WAVE
    /\ w.fmt_chunk_tag = FMT
    /\ w.fmt_chunk_size = <<16, 0, 0, 0>>
    /\ w.fmt_code = <<1, 0>>
    /\ w.sampling_rate # <<0, 0, 0, 0>>
    /\ w.byte_rate # <<0, 0, 0, 0>>
    /\ w.block_alignment # <<0, 0>>
    /\ w.bits_per_sample # <<0, 0>>
    /\ w.data_tag = DATA
    /\ w.data_size # <<0, 0, 0, 0>>
    /\ ~VecIsEmpty(w.data)

\* C1: decoding the image of the structure encode returned gives back that
\* structure, equal in each of the 13 header fields and in the payload.
RoundTrip ==
    (DecodedCleanly /\ tampered = "none" /\ file.bytes = Serialize(enc.fmt))
        => (dec.status = "Ok" /\ dec.fmt = enc.fmt)

RoundTripWitness ==
    /\ DecodedCleanly
    /\ tampered = "none"
    /\ file.bytes = Serialize(enc.fmt)
    /\ PositiveArgs
    /\ DerivedFit
    /\ Len(args.data.head) >= 2
    /\ dec.fmt = enc.fmt

\* C2: whenever the exact derived values fit their fields, encode returns a
\* structure whose byte_rate, block_alignment, data_size and total_size are
\* those exact values, also when an intermediate product does not fit.
DerivedFieldsExact ==
    (enc.status # "none" /\ DerivedFit)
        => /\ enc.status = "Ok"
           /\ NumEq(FromLeBytes(enc.fmt.byte_rate), ExactByteRate)
           /\ NumEq(FromLeBytes(enc.fmt.block_alignment), ExactBlockAlignment)
           /\ NumEq(FromLeBytes(enc.fmt.data_size), VecLen(args.data))
           /\ NumEq(FromLeBytes(enc.fmt.total_size), ExactTotalSize)

\* C3: encode returns an error whenever the exact num_channels *
\* bits_per_sample / 8 does not fit the 16 bits of block_alignment.
BlockAlignmentOverflowIsError ==
    (enc.status # "none" /\ ~Fits(ExactBlockAlignment, 2)) => enc.status = "Err"

\* C4: encode returns an error whenever the exact sampling_rate *
\* num_channels * bits_per_sample / 8 does not fit the 32 bits of byte_rate.
ByteRateOverflowIsError ==
    (enc.status # "none" /\ ~Fits(ExactByteRate, 4)) => enc.status = "Err"

\* C5: encode returns an error, and neither wraps nor aborts, whenever the
\* payload length or the payload length plus 36 does not fit 32 bits.
TotalSizeOverflowIsError ==
    (enc.status # "none" /\ ~Fits(ExactTotalSize, 4)) => enc.status = "Err"

\* C6: check rejects a structure in which one of num_channels, sampling_rate,
\* byte_rate, block_alignment, bits_per_sample or data_size is 0, and when
\* num_channels alone is at fault the violation names bytes 23 - 24.
ZeroFieldRejected ==
    /\ (pc = "checked" /\ (\/ wav.num_channels = <<0, 0>>
                           \/ wav.sampling_rate = <<0, 0, 0, 0>>
                           \/ wav.byte_rate = <<0, 0, 0, 0>>
                           \/ wav.block_alignment = <<0, 0>>
                           \/ wav.bits_per_sample = <<0, 0>>
                           \/ wav.data_size = <<0, 0, 0, 0>>))
            => ~chk.ok
    /\ (pc = "checked" /\ wav.num_channels = <<0, 0>>
                       /\ wav.riff_tag = RIFF /\ ValidButRiffTag(wav))
            => (~chk.ok /\ chk.lo = 23 /\ chk.hi = 24)

\* C7: check passes the structure encode returns for positive num_channels,
\* sampling_rate and bits_per_sample, a non-empty payload and derived fields
\* that fit their widths and are positive.
EncodedPassesCheck ==
    (/\ pc = "checked" /\ origin = "encode" /\ tampered = "none"
     /\ PositiveArgs /\ DerivedFit
     /\ ~VecIsEmpty(args.data)
     /\ ~IsZero(ExactByteRate) /\ ~IsZero(ExactBlockAlignment))
        => chk.ok

EncodedPassesCheckWitness ==
    /\ pc = "checked" /\ origin = "encode" /\ tampered = "none"
    /\ args.num_channels = NumOf(2, W16)
    /\ args.sampling_rate = NumOf(44100, W32)
    /\ args.bits_per_sample = NumOf(16, W16)
    /\ NumEq(VecLen(args.data), NumOf(1000, W64))
    /\ chk.ok

ReadFailureSurfaced ==
    (dec.status # "none" /\ file.exists /\ failing # {}) => dec.status = "Err"

\* the w bytes of the file at offset off, zero where the file has ended
FileField(off, w) ==
    [j \in 1..w |-> IF off + j <= Len(file.bytes) THEN file.bytes[off + j] ELSE 0]

\* the payload the header of the file declares, cut to what the file holds
DeclaredPayload ==
    LET size  == FromLeBytes(FileField(40, 4))
        avail == Max(Len(file.bytes) - 44, 0)
        n     == IF Fits(size, 3) THEN Min(ToNat(size), avail) ELSE avail
    IN  SubSeq(file.bytes, 45, 44 + n)

\* C10: decode returns the 13 header fields found at their offsets of the
\* layout, bytes past the end of the input read as zero, and as payload the
\* first min(data_size, max(N - 44, 0)) bytes that follow the header.
DecodeBounded ==
    DecodedCleanly
        => /\ dec.status = "Ok"
           /\ dec.fmt.riff_tag = FileField(0, 4)
           /\ dec.fmt.total_size = FileField(4, 4)
           /\ dec.fmt.wave_tag = FileField(8, 4)
           /\ dec.fmt.fmt_chunk_tag = FileField(12, 4)
           /\ dec.fmt.fmt_chunk_size = FileField(16, 4)
           /\ dec.fmt.fmt_code = FileField(20, 2)
           /\ dec.fmt.num_channels = FileField(22, 2)
           /\ dec.fmt.sampling_rate = FileField(24, 4)
           /\ dec.fmt.byte_rate = FileField(28, 4)
           /\ dec.fmt.block_alignment = FileField(32, 2)
           /\ dec.fmt.bits_per_sample = FileField(34, 2)
           /\ dec.fmt.data_tag = FileField(36, 4)
           /\ dec.fmt.data_size = FileField(40, 4)
           /\ dec.fmt.data = Vec(DeclaredPayload)

DecodeBoundedWitness ==
    /\ DecodedCleanly
    /\ dec.status = "Ok"
    /\ Len(file.bytes) > 44 + Len(dec.fmt.data.head)
    /\ Len(dec.fmt.data.head) >= 1
    /\ dec.fmt.data = Vec(DeclaredPayload)

====
